---- MODULE Spec2Model ----
(***************************************************************************)
(* gomajor: module-coordinate algebra (internal/packages), version         *)
(* resolution of the get command and the bounded fan-out of the list       *)
(* command.  Go strings are modelled as sequences of one-character         *)
(* strings, so that prefixes, suffixes and slices are computed as the code *)
(* computes them.                                                           *)
(***************************************************************************)
EXTENDS Integers, Sequences, FiniteSets, TLC

\* ------------------------------------------------------------------------
\* Go's strings package, on sequences of characters

Digit == {"0","1","2","3","4","5","6","7","8","9"}

\* s[n:]
Drop(s, n) ==
    SubSeq(s, n + 1, Len(s))

\* s[:n]
Take(s, n) ==
    SubSeq(s, 1, n)

HasPrefix(s, p) ==
    Len(p) <= Len(s) /\ Take(s, Len(p)) = p

HasSuffix(s, x) ==
    Len(x) <= Len(s) /\ Drop(s, Len(s) - Len(x)) = x

TrimPrefix(s, p) ==
    IF HasPrefix(s, p) THEN Drop(s, Len(p)) ELSE s

\* strings.Index: the 0-based offset of the first occurrence of sub, or -1
Index(s, sub) ==
    LET at == {i \in 0..(Len(s) - Len(sub)) : SubSeq(s, i + 1, i + Len(sub)) = sub}
    IN  IF at = {} THEN -1 ELSE CHOOSE i \in at : \A j \in at : i <= j

Contains(s, sub) ==
    Index(s, sub) >= 0

\* a call of F whose arguments are evaluated once, before the call
Call1(F(_), a) ==
    CHOOSE r \in {F(x) : x \in {a}} : TRUE

Call2(F(_, _), a, b) ==
    CHOOSE r \in {F(x, y) : x \in {a}, y \in {b}} : TRUE

Call3(F(_, _, _), a, b, c) ==
    CHOOSE r \in {F(x, y, z) : x \in {a}, y \in {b}, z \in {c}} : TRUE

Call4(F(_, _, _, _), a, b, c, d) ==
    CHOOSE r \in {F(w, x, y, z) : w \in {a}, x \in {b}, y \in {c}, z \in {d}} : TRUE

\* the offsets of the character c in s
SepAt(s, c) ==
    {i \in 1..Len(s) : s[i] = c}

\* the offset of the k-th c in s; 0 before the first, past the end after the last
NthSep(s, c, k) ==
    IF k = 0 THEN 0
    ELSE IF k > Cardinality(SepAt(s, c)) THEN Len(s) + 1
    ELSE CHOOSE i \in SepAt(s, c) : Cardinality({j \in SepAt(s, c) : j <= i}) = k

\* strings.Split(s, c) for a one-character separator
Split(s, c) ==
    [k \in 1..(Cardinality(SepAt(s, c)) + 1) |->
        SubSeq(s, NthSep(s, c, k - 1) + 1, NthSep(s, c, k) - 1)]

\* strings.SplitN(spec, "@", 2)
SplitSpec(spec) ==
    LET at == Index(spec, <<"@">>)
    IN  IF at >= 0
        THEN [path |-> Take(spec, at), version |-> Drop(spec, at + 1)]
        ELSE [path |-> spec, version |-> <<>>]

\* s with every run of slashes replaced by one
RECURSIVE CollapseFrom(_, _)
CollapseFrom(s, i) ==
    IF i > Len(s) THEN <<>>
    ELSE IF i < Len(s) /\ s[i] = "/" /\ s[i + 1] = "/" THEN CollapseFrom(s, i + 1)
    ELSE <<s[i]>> \o CollapseFrom(s, i + 1)

Collapse(s) ==
    CollapseFrom(s, 1)

TrimSlash(s) ==
    IF Len(s) > 1 /\ s[Len(s)] = "/" THEN Take(s, Len(s) - 1) ELSE s

\* path.Clean of a path free of "." and ".." elements: doubled and trailing
\* slashes are removed
Clean(s) ==
    Call1(TrimSlash, Collapse(s))

\* path.Join of two elements: the empty element is dropped, the rest joined
\* by "/" and cleaned
PathJoin(a, b) ==
    IF a = <<>> THEN Call1(Clean, b)
    ELSE IF b = <<>> THEN Call1(Clean, a)
    ELSE Call1(Clean, a \o <<"/">> \o b)

\* ------------------------------------------------------------------------
\* golang.org/x/mod/semver

\* the length of the leading run of digits of v
DigitRun(v) ==
    CHOOSE n \in 0..Len(v) :
        /\ \A i \in 1..n : v[i] \in Digit
        /\ n = Len(v) \/ v[n + 1] \notin Digit

\* parseInt: [t, rest, ok]
ParseIntAt(v, i) ==
    IF i = 0 \/ (v[1] = "0" /\ i # 1)
    THEN [t |-> <<>>, rest |-> <<>>, ok |-> FALSE]
    ELSE [t |-> Take(v, i), rest |-> Drop(v, i), ok |-> TRUE]

ParseInt(v) ==
    Call2(ParseIntAt, v, DigitRun(v))

IdentChar ==
    Digit \cup {"a","b","c","d","e","f","g","h","i","j","k","l","m","n","o",
                "p","q","r","s","t","u","v","w","x","y","z","-"}

IsNum(v) ==
    DigitRun(v) = Len(v)

IsBadNum(v) ==
    IsNum(v) /\ Len(v) > 1 /\ v[1] = "0"

\* the dot-separated identifiers of an identifier list (without its marker)
Idents(v) ==
    Split(v, ".")

\* parsePrerelease: v starts with "-"; the prerelease runs up to a "+"
ParsePrerelease(v) ==
    LET plus == Index(v, <<"+">>)
        i    == IF plus < 0 THEN Len(v) ELSE plus
        ids  == Idents(SubSeq(v, 2, i))
        good == \A k \in 1..Len(ids) :
                    /\ ids[k] # <<>>
                    /\ ~IsBadNum(ids[k])
                    /\ \A n \in 1..Len(ids[k]) : ids[k][n] \in IdentChar
    IN  IF good THEN [t |-> Take(v, i), rest |-> Drop(v, i), ok |-> TRUE]
        ELSE [t |-> <<>>, rest |-> <<>>, ok |-> FALSE]

\* parseBuild: v starts with "+"; the build runs to the end
ParseBuild(v) ==
    LET ids  == Idents(Drop(v, 1))
        good == \A k \in 1..Len(ids) :
                    /\ ids[k] # <<>>
                    /\ \A n \in 1..Len(ids[k]) : ids[k][n] \in IdentChar
    IN  IF good THEN [t |-> v, rest |-> <<>>, ok |-> TRUE]
        ELSE [t |-> <<>>, rest |-> <<>>, ok |-> FALSE]

NotParsed ==
    [major |-> <<>>, minor |-> <<>>, patch |-> <<>>, prerelease |-> <<>>, ok |-> FALSE]

\* parse, after the patch number pa: the prerelease pr and the build
ParseTail(ma, mi, pa, pr) ==
    IF ~pr.ok THEN NotParsed
    ELSE IF pr.rest = <<>>
    THEN [major |-> ma.t, minor |-> mi.t, patch |-> pa.t, prerelease |-> pr.t, ok |-> TRUE]
    ELSE IF pr.rest[1] = "+" /\ ParseBuild(pr.rest).ok
    THEN [major |-> ma.t, minor |-> mi.t, patch |-> pa.t, prerelease |-> pr.t, ok |-> TRUE]
    ELSE NotParsed

\* parse, after the minor number mi
ParsePatch(ma, mi, pa) ==
    IF ~pa.ok THEN NotParsed
    ELSE IF pa.rest # <<>> /\ pa.rest[1] = "-"
    THEN Call4(ParseTail, ma, mi, pa, ParsePrerelease(pa.rest))
    ELSE Call4(ParseTail, ma, mi, pa, [t |-> <<>>, rest |-> pa.rest, ok |-> TRUE])

\* parse, after the major number ma
ParseMinor(ma, mi) ==
    IF ~mi.ok THEN NotParsed
    ELSE IF mi.rest = <<>>
    THEN [major |-> ma.t, minor |-> mi.t, patch |-> <<"0">>, prerelease |-> <<>>, ok |-> TRUE]
    ELSE IF mi.rest[1] # "." THEN NotParsed
    ELSE Call3(ParsePatch, ma, mi, ParseInt(Drop(mi.rest, 1)))

\* parse, after the leading "v"
ParseMajor(ma) ==
    IF ~ma.ok THEN NotParsed
    ELSE IF ma.rest = <<>>
    THEN [major |-> ma.t, minor |-> <<"0">>, patch |-> <<"0">>, prerelease |-> <<>>, ok |-> TRUE]
    ELSE IF ma.rest[1] # "." THEN NotParsed
    ELSE Call2(ParseMinor, ma, ParseInt(Drop(ma.rest, 1)))

\* parse: [major, minor, patch, prerelease, ok]
Parse(v) ==
    IF v = <<>> \/ v[1] # "v" THEN NotParsed
    ELSE Call1(ParseMajor, ParseInt(Drop(v, 1)))

IsValid(v) ==
    Parse(v).ok

\* semver.Major: "v" and the major number, or "" for an invalid version
MajorOf(v, pv) ==
    IF pv.ok THEN Take(v, 1 + Len(pv.major)) ELSE <<>>

Major(v) ==
    Call2(MajorOf, v, Parse(v))

Prerelease(v) ==
    Parse(v).prerelease

\* bytes in ASCII order
Ascii ==
    <<"+","-",".","/","0","1","2","3","4","5","6","7","8","9","@",
      "a","b","c","d","e","f","g","h","i","j","k","l","m","n","o",
      "p","q","r","s","t","u","v","w","x","y","z">>

Ord(c) ==
    CHOOSE i \in 1..Len(Ascii) : Ascii[i] = c

\* Go's string < on two strings
StrLess(x, y) ==
    \E i \in 1..Len(y) :
        /\ \A j \in 1..(i - 1) : j <= Len(x) /\ x[j] = y[j]
        /\ i > Len(x) \/ Ord(x[i]) < Ord(y[i])

CompareInt(x, y) ==
    IF x = y THEN 0
    ELSE IF Len(x) < Len(y) THEN -1
    ELSE IF Len(x) > Len(y) THEN 1
    ELSE IF StrLess(x, y) THEN -1 ELSE 1

\* the identifiers of x and y compared pairwise, as comparePrerelease's loop
\* two differing identifiers: a numeric one is less than any other, two
\* numeric ones compare by length and then as strings
CompareIdent(dx, dy) ==
    IF IsNum(dx) # IsNum(dy) THEN (IF IsNum(dx) THEN -1 ELSE 1)
    ELSE IF IsNum(dx) /\ Len(dx) < Len(dy) THEN -1
    ELSE IF IsNum(dx) /\ Len(dx) > Len(dy) THEN 1
    ELSE IF StrLess(dx, dy) THEN -1 ELSE 1

RECURSIVE CompareIdentsFrom(_, _, _)
CompareIdentsFrom(xs, ys, i) ==
    IF i > Len(xs) THEN -1
    ELSE IF i > Len(ys) THEN 1
    ELSE IF xs[i] = ys[i] THEN CompareIdentsFrom(xs, ys, i + 1)
    ELSE CompareIdent(xs[i], ys[i])

CompareIdents(xs, ys) ==
    CompareIdentsFrom(xs, ys, 1)

ComparePrerelease(x, y) ==
    IF x = y THEN 0
    ELSE IF x = <<>> THEN 1
    ELSE IF y = <<>> THEN -1
    ELSE Call2(CompareIdents, Idents(Drop(x, 1)), Idents(Drop(y, 1)))

\* the first of the comparisons a, b, c, d that is not 0
FirstNonZero(a, b, c, d) ==
    IF a # 0 THEN a ELSE IF b # 0 THEN b ELSE IF c # 0 THEN c ELSE d

CompareParsed(pv, pw) ==
    IF ~pv.ok /\ ~pw.ok THEN 0
    ELSE IF ~pv.ok THEN -1
    ELSE IF ~pw.ok THEN 1
    ELSE FirstNonZero(CompareInt(pv.major, pw.major),
                      CompareInt(pv.minor, pw.minor),
                      CompareInt(pv.patch, pw.patch),
                      ComparePrerelease(pv.prerelease, pw.prerelease))

\* semver.Compare: an invalid version is less than any valid one
Compare(v, w) ==
    Call2(CompareParsed, Parse(v), Parse(w))

\* ------------------------------------------------------------------------
\* golang.org/x/mod/module.SplitPathVersion

\* the length of s without its longest trailing run of characters of set
TrimRun(s, set) ==
    CHOOSE n \in 0..Len(s) :
        /\ \A i \in (n + 1)..Len(s) : s[i] \in set
        /\ n = 0 \/ s[n] \notin set

splitGopkgIn(path) ==
    LET end == IF HasSuffix(path, <<"-","u","n","s","t","a","b","l","e">>) THEN Len(path) - 9 ELSE Len(path)
        i   == TrimRun(Take(path, end), Digit)
    IN  IF ~HasPrefix(path, <<"g","o","p","k","g",".","i","n","/">>)
        THEN [prefix |-> path, pathMajor |-> <<>>, ok |-> FALSE]
        ELSE IF i <= 1 \/ path[i] # "v" \/ path[i - 1] # "."
        THEN [prefix |-> path, pathMajor |-> <<>>, ok |-> FALSE]
        ELSE LET pathMajor == Drop(path, i - 2)
             IN  IF Len(pathMajor) <= 2 \/ (pathMajor[3] = "0" /\ pathMajor # <<".","v","0">>)
                 THEN [prefix |-> path, pathMajor |-> <<>>, ok |-> FALSE]
                 ELSE [prefix |-> Take(path, i - 2), pathMajor |-> pathMajor, ok |-> TRUE]

SplitPathVersion(path) ==
    IF HasPrefix(path, <<"g","o","p","k","g",".","i","n","/">>) THEN splitGopkgIn(path)
    ELSE
    LET i   == TrimRun(path, Digit \cup {"."})
        dot == \E k \in (i + 1)..Len(path) : path[k] = "."
    IN  IF i <= 1 \/ i = Len(path) \/ path[i] # "v" \/ path[i - 1] # "/"
        THEN [prefix |-> path, pathMajor |-> <<>>, ok |-> TRUE]
        ELSE LET pathMajor == Drop(path, i - 2)
             IN  IF dot \/ Len(pathMajor) <= 2 \/ pathMajor[3] = "0" \/ pathMajor = <<"/","v","1">>
                 THEN [prefix |-> path, pathMajor |-> <<>>, ok |-> FALSE]
                 ELSE [prefix |-> Take(path, i - 2), pathMajor |-> pathMajor, ok |-> TRUE]

\* ------------------------------------------------------------------------
\* internal/packages

\* Direct: the ModPrefix recorded for a dependency whose module path is path
DirectModPrefix(path) ==
    LET sp == SplitPathVersion(path)
    IN  IF sp.ok THEN sp.prefix ELSE path

Incompatible(pkg) ==
    Contains(pkg.Version, <<"+","i","n","c","o","m","p","a","t","i","b","l","e">>)

\* JoinPathMajor appending v0 as a path element
JoinPathMajorV0Suffixed(path, major) ==
    IF HasPrefix(path, <<"g","o","p","k","g",".","i","n">>)
    THEN path \o <<".">> \o TrimPrefix(major, <<".">>)
    ELSE LET m == TrimPrefix(major, <<"/">>)
         IN  IF m = <<"v","1">> \/ m = <<>>
             THEN path
             ELSE (IF ~HasSuffix(path, <<"/">>) THEN path \o <<"/">> ELSE path) \o m

\* JoinPathMajor appending the major without a separating "/"
JoinPathMajorNoSlash(path, major) ==
    IF HasPrefix(path, <<"g","o","p","k","g",".","i","n">>)
    THEN path \o <<".">> \o TrimPrefix(major, <<".">>)
    ELSE LET m == TrimPrefix(major, <<"/">>)
         IN  IF m = <<"v","0">> \/ m = <<"v","1">> \/ m = <<>>
             THEN path
             ELSE path \o m

JoinPathMajor(path, major) ==
    IF HasPrefix(path, <<"g","o","p","k","g",".","i","n">>)
    THEN path \o <<".">> \o TrimPrefix(major, <<".">>)
    ELSE LET m == TrimPrefix(major, <<"/">>)
         IN  IF m = <<"v","0">> \/ m = <<"v","1">> \/ m = <<>>
             THEN path
             ELSE (IF ~HasSuffix(path, <<"/">>) THEN path \o <<"/">> ELSE path) \o m

\* ModPath dropping the suffix of every +incompatible version
ModPathAnyHost(pkg) ==
    IF Incompatible(pkg)
    THEN pkg.ModPrefix
    ELSE Call2(JoinPathMajor, pkg.ModPrefix, Major(pkg.Version))

ModPath(pkg) ==
    IF Incompatible(pkg) /\ ~HasPrefix(pkg.ModPrefix, <<"g","o","p","k","g",".","i","n">>)
    THEN pkg.ModPrefix
    ELSE Call2(JoinPathMajor, pkg.ModPrefix, Major(pkg.Version))

Path(pkg) ==
    Call2(PathJoin, ModPath(pkg), pkg.PkgDir)

\* [modpath, ok]
FindModPath(pkg, pkgpath) ==
    IF ~HasPrefix(pkgpath, pkg.ModPrefix)
    THEN [modpath |-> <<>>, ok |-> FALSE]
    ELSE LET n0  == Len(pkg.ModPrefix)
             n1  == IF HasPrefix(Drop(pkgpath, n0), <<"/">>) THEN n0 + 1 ELSE n0
             idx == Index(Drop(pkgpath, n1), <<"/">>)
             n2  == IF idx >= 0 THEN n1 + idx ELSE Len(pkgpath)
             sp  == SplitPathVersion(Take(pkgpath, n2))
         IN  IF sp.ok
             THEN [modpath |-> JoinPathMajor(pkg.ModPrefix, sp.pathMajor), ok |-> TRUE]
             ELSE [modpath |-> pkg.ModPrefix, ok |-> TRUE]

\* packages.ModPrefix: a module path without its encoded major version
ModPrefix(modpath) ==
    DirectModPrefix(modpath)

\* packages.JoinPath: the module path of version under modprefix, and pkgdir
JoinPath(modprefix, version, pkgdir) ==
    Path([Version |-> version, PkgDir |-> pkgdir, ModPrefix |-> modprefix])

\* whether pkgpath continues modprefix at a path-segment boundary: at its
\* end, at a "/", or at the ".vN" of a gopkg.in module
AtBoundary(modprefix, pkgpath) ==
    LET rest == Drop(pkgpath, Len(modprefix))
    IN  \/ rest = <<>>
        \/ rest[1] = "/"
        \/ HasPrefix(modprefix, <<"g","o","p","k","g",".","i","n">>) /\ HasPrefix(rest, <<".","v">>)

\* packages.SplitPath: [modpath, pkgdir, ok]
SplitPath(modprefix, pkgpath) ==
    IF ~HasPrefix(pkgpath, modprefix) \/ ~AtBoundary(modprefix, pkgpath)
    THEN [modpath |-> <<>>, pkgdir |-> <<>>, ok |-> FALSE]
    ELSE LET modpath == FindModPath([ModPrefix |-> modprefix], pkgpath).modpath
         IN  [modpath |-> modpath,
              pkgdir  |-> TrimPrefix(TrimPrefix(pkgpath, modpath), <<"/">>),
              ok      |-> TRUE]

ErrSkip ==
    [newpath |-> <<>>, skip |-> TRUE]

\* the function without its comparison of the new path and the old
RewriteFnAlways(modprefix, version, pkgdir, path) ==
    LET sp == SplitPath(modprefix, path)
    IN  IF ~sp.ok THEN ErrSkip
        ELSE IF pkgdir # <<>> /\ pkgdir # sp.pkgdir THEN ErrSkip
        ELSE [newpath |-> JoinPath(modprefix, version, sp.pkgdir), skip |-> FALSE]

\* the function get hands to importpaths.Rewrite: [newpath, skip]
RewriteFn(modprefix, version, pkgdir, path) ==
    LET sp == SplitPath(modprefix, path)
    IN  IF ~sp.ok THEN ErrSkip
        ELSE IF pkgdir # <<>> /\ pkgdir # sp.pkgdir THEN ErrSkip
        ELSE LET newpath == JoinPath(modprefix, version, sp.pkgdir)
             IN  IF newpath = path THEN ErrSkip
                 ELSE [newpath |-> newpath, skip |-> FALSE]

\* ------------------------------------------------------------------------
\* State

VARIABLES
    \* the coordinate algebra: the call made, its arguments and its results
    apc, arg, joined, strip, modpath, found, mapped, rewriteLog,
    \* the get command: its position, its command line, the modules the
    \* proxy answered with, its locals, its return value, the proxy requests
    \* made, the go get commands run and the rewrites invoked
    gpc, gin, mod, latest, query, version, modprefix, pkgdir, gerr,
    requests, fetched, rewrites,
    \* the list command: its position, its command line and environment, the
    \* direct dependencies, the loop index, each dependency's lookup (none,
    \* spawned, lookup, ok, failed), the Latest requests made for it, the
    \* lines on stderr and stdout, the group's first error, the return value
    lpc, lin, deps, idx, status, lookups, stderr, stdout, groupErr, lerr

avars == <<apc, arg, joined, strip, modpath, found, mapped, rewriteLog>>

gvars == <<gpc, gin, mod, latest, query, version, modprefix, pkgdir, gerr,
           requests, fetched, rewrites>>

lvars == <<lpc, lin, deps, idx, status, lookups, stderr, stdout, groupErr, lerr>>

vars == <<avars, gvars, lvars>>

\* ------------------------------------------------------------------------
\* The coordinate algebra applied to bounded inputs

\* major versions v0 .. vMaxMajor, and the two-digit v10
MaxMajor == 3

MajorNumbers ==
    (0..MaxMajor) \cup {10}

\* the decimal digits of n < 100
Decimal(n) ==
    LET d(k) == Ascii[Ord("0") + k]
    IN  IF n < 10 THEN <<d(n)>> ELSE <<d(n \div 10), d(n % 10)>>

Token(n) ==
    <<"v">> \o Decimal(n)

\* a major token, bare or with the separator of either convention
MajorTokens ==
    {<<>>} \cup {sep \o Token(n) : sep \in {<<>>, <<"/">>, <<".">>}, n \in MajorNumbers}

\* module prefixes that carry no encoded major version
Prefixes ==
    { <<"g","i","t","h","u","b",".","c","o","m","/","p","k","g","/","e","r","r","o","r","s">>, <<"g","i","t","h","u","b",".","c","o","m","/","p","k","g","/","e","r","r","o","r","s","/">>,
      <<"g","o","p","k","g",".","i","n","/","y","a","m","l">>, <<"g","o","p","k","g",".","i","n","/","y","a","m","l","/">>, <<"g","o","p","k","g",".","i","n","c","/","y","a","m","l">>, <<"f","o","o","/","b","a">> }

Versions ==
    { <<"v","0",".","4",".","0">>, <<"v","1",".","2",".","0">>, <<"v","2",".","0",".","0","+","i","n","c","o","m","p","a","t","i","b","l","e">>, <<"v","3",".","0",".","0">>, <<"v","3",".","1",".","0","-","r","c",".","1">>,
      <<"v","1","0",".","1",".","0">>, <<"m","a","s","t","e","r">> }

PkgDirs ==
    { <<>>, <<"s","u","b">> }

\* import paths found in a source tree
PkgPaths ==
    { <<"g","i","t","h","u","b",".","c","o","m","/","p","k","g","/","e","r","r","o","r","s">>, <<"g","i","t","h","u","b",".","c","o","m","/","p","k","g","/","e","r","r","o","r","s","/","s","u","b">>,
      <<"g","i","t","h","u","b",".","c","o","m","/","p","k","g","/","e","r","r","o","r","s","/","v","3">>, <<"g","i","t","h","u","b",".","c","o","m","/","p","k","g","/","e","r","r","o","r","s","/","v","3","/","s","u","b">>,
      <<"g","i","t","h","u","b",".","c","o","m","/","p","k","g","/","e","r","r","o","r","s","x">>, <<"g","o","p","k","g",".","i","n","/","y","a","m","l",".","v","2">>, <<"g","o","p","k","g",".","i","n","/","y","a","m","l",".","v","3","/","s","u","b">>,
      <<"g","o","p","k","g",".","i","n","c","/","y","a","m","l","/","s","u","b">>, <<"f","o","o","/","b","a","r">>, <<"f","o","o","/","b","a","/","v","1","0">> }

NoSplit ==
    [prefix |-> <<>>, pathMajor |-> <<>>, ok |-> FALSE]

NoModule ==
    [Path |-> <<>>, Versions |-> {}]

\* no call of the algebra is under way
IdleAlgebra ==
    /\ apc = "idle"
    /\ arg = [prefix |-> <<>>, major |-> <<>>, version |-> <<>>, pkgdir |-> <<>>, path |-> <<>>]
    /\ joined = <<>>
    /\ strip = NoSplit
    /\ modpath = <<>>
    /\ found = [modpath |-> <<>>, ok |-> FALSE]
    /\ mapped = ErrSkip
    /\ rewriteLog = <<>>

\* the get command is not running
IdleGet ==
    /\ gpc = "idle"
    /\ gin = [impl |-> "getcmd", args |-> <<>>, pre |-> FALSE, goget |-> FALSE, rewrite |-> FALSE]
    /\ mod = NoModule
    /\ latest = NoModule
    /\ query = <<>>
    /\ version = <<>>
    /\ modprefix = <<>>
    /\ pkgdir = <<>>
    /\ gerr = ""
    /\ requests = <<>>
    /\ fetched = <<>>
    /\ rewrites = <<>>

\* the list command is not running
IdleList ==
    /\ lpc = "idle"
    /\ lin = [impl |-> "listcmd", cached |-> FALSE, pre |-> FALSE, major |-> FALSE,
              private |-> <<>>, ndeps |-> 0]
    /\ deps = <<>>
    /\ idx = 0
    /\ status = <<>>
    /\ lookups = <<>>
    /\ stderr = {}
    /\ stdout = {}
    /\ groupErr = ""
    /\ lerr = ""

InitAlgebra ==
    /\ IdleGet
    /\ IdleList
    /\ apc = "input"
    /\ arg \in [prefix : Prefixes, major : MajorTokens, version : Versions,
                pkgdir : PkgDirs, path : PkgPaths]
    /\ joined = <<>>
    /\ strip = NoSplit
    /\ modpath = <<>>
    /\ found = [modpath |-> <<>>, ok |-> FALSE]
    /\ mapped = ErrSkip
    /\ rewriteLog = <<>>

ArgPackage ==
    [Version |-> arg.version, PkgDir |-> arg.pkgdir, ModPrefix |-> arg.prefix]

CallJoinPathMajor ==
    /\ apc = "input"
    /\ joined' = JoinPathMajor(arg.prefix, arg.major)
    /\ apc' = "joined"
    /\ UNCHANGED <<arg, strip, modpath, found, mapped, rewriteLog>>
    /\ UNCHANGED <<gvars, lvars>>

\* the encoded path read back as a dependency's module path
CallStrip ==
    /\ apc = "joined"
    /\ strip' = SplitPathVersion(joined)
    /\ apc' = "stripped"
    /\ UNCHANGED <<arg, joined, modpath, found, mapped, rewriteLog>>
    /\ UNCHANGED <<gvars, lvars>>

CallModPath ==
    /\ apc = "input"
    /\ modpath' = ModPath(ArgPackage)
    /\ apc' = "modpath"
    /\ UNCHANGED <<arg, joined, strip, found, mapped, rewriteLog>>
    /\ UNCHANGED <<gvars, lvars>>

CallFindModPath ==
    /\ apc = "input"
    /\ found' = FindModPath(ArgPackage, arg.path)
    /\ apc' = "found"
    /\ UNCHANGED <<arg, joined, strip, modpath, mapped, rewriteLog>>
    /\ UNCHANGED <<gvars, lvars>>

\* importpaths.Rewrite calls the function on one import path; a rewrite is
\* printed by the function itself
CallRewriteFn ==
    /\ apc = "input"
    /\ mapped' = RewriteFn(arg.prefix, arg.version, arg.pkgdir, arg.path)
    /\ rewriteLog' = IF mapped'.skip THEN rewriteLog
                     ELSE Append(rewriteLog, [path |-> arg.path, newpath |-> mapped'.newpath])
    /\ apc' = "mapped"
    /\ UNCHANGED <<arg, joined, strip, modpath, found>>
    /\ UNCHANGED <<gvars, lvars>>

NextAlgebra ==
    \/ CallJoinPathMajor
    \/ CallStrip
    \/ CallModPath
    \/ CallFindModPath
    \/ CallRewriteFn

SpecAlgebra ==
    InitAlgebra /\ [][NextAlgebra]_vars

\* ------------------------------------------------------------------------
\* The get command (getcmd of main.go, and get, its earlier form)

\* the proxy lists at most MaxVersions versions of a module
MaxVersions == 2

KnownVersions ==
    { <<"v","1",".","2",".","0">>, <<"v","2",".","0",".","0","+","i","n","c","o","m","p","a","t","i","b","l","e">>, <<"v","3",".","0",".","0">>, <<"v","3",".","1",".","0","-","r","c",".","1">> }

VersionLists ==
    {vs \in SUBSET KnownVersions : Cardinality(vs) <= MaxVersions}

ModulePaths ==
    { <<"g","i","t","h","u","b",".","c","o","m","/","p","k","g","/","e","r","r","o","r","s">>, <<"g","i","t","h","u","b",".","c","o","m","/","p","k","g","/","e","r","r","o","r","s","/","v","3">>, <<"g","o","p","k","g",".","i","n","/","y","a","m","l",".","v","2">> }

\* modproxy.Module.MaxVersion: the greatest valid version that starts with
\* prefix, prereleases left out unless pre; "" when there is none
Greatest(vs) ==
    IF vs = {} THEN <<>> ELSE CHOOSE v \in vs : \A w \in vs : Compare(v, w) >= 0

MaxVersion(m, prefix, pre) ==
    Call1(Greatest, {v \in m.Versions :
                  /\ Parse(v).ok
                  /\ HasPrefix(v, prefix)
                  /\ (pre \/ Parse(v).prerelease = <<>>)})

\* the modules the proxy may answer a package path with
ModulesOf(pkgpath) ==
    {m \in [Path : ModulePaths, Versions : VersionLists] :
         SplitPath(ModPrefix(m.Path), pkgpath).ok}

\* the modules the proxy may name as the latest of the module at path
LatestOf(path) ==
    {m \in [Path : ModulePaths, Versions : VersionLists] :
         ModPrefix(m.Path) = ModPrefix(path)}

GetPaths ==
    { <<"g","i","t","h","u","b",".","c","o","m","/","p","k","g","/","e","r","r","o","r","s","/","s","u","b">>, <<"g","o","p","k","g",".","i","n","/","y","a","m","l",".","v","2">> }

Queries ==
    { <<>>, <<"@","l","a","t","e","s","t">>, <<"@","m","a","s","t","e","r">>, <<"@","d","e","f","a","u","l","t">>, <<"@","v","2">>, <<"@","v","3",".","0",".","0">>, <<"@","v","4",".","0",".","0">>,
      <<"@","v","1",".","0","2">> }

\* command lines with no, one and two arguments
ArgLists ==
    {<<>>, <<<<"g","i","t","h","u","b",".","c","o","m","/","p","k","g","/","e","r","r","o","r","s">>, <<"g","o","p","k","g",".","i","n","/","y","a","m","l",".","v","2">>>>}
        \cup {<<p \o q>> : p \in GetPaths, q \in Queries}

InitGet ==
    /\ IdleAlgebra
    /\ IdleList
    /\ gpc = "start"
    /\ gin \in [impl : {"getcmd", "get"}, args : ArgLists, pre : BOOLEAN,
                goget : BOOLEAN, rewrite : BOOLEAN]
    /\ mod = NoModule
    /\ latest = NoModule
    /\ query = <<>>
    /\ version = <<>>
    /\ modprefix = <<>>
    /\ pkgdir = <<>>
    /\ gerr = ""
    /\ requests = <<>>
    /\ fetched = <<>>
    /\ rewrites = <<>>

GetReturn(err) ==
    /\ gerr' = err
    /\ gpc' = "done"

\* from the argument count to the split of the package path
GetQueryPackage ==
    /\ gpc = "start"
    /\ IF Len(gin.args) # 1
       THEN /\ GetReturn("missing package spec")
            /\ UNCHANGED <<mod, query, modprefix, pkgdir, requests>>
       ELSE LET spec == SplitSpec(gin.args[1])
            IN  /\ query' = spec.version
                /\ \/ /\ requests' = Append(requests, [call |-> "QueryPackage", ok |-> FALSE])
                      /\ GetReturn("QueryPackage")
                      /\ UNCHANGED <<mod, modprefix, pkgdir>>
                   \/ \E m \in ModulesOf(spec.path) :
                          /\ requests' = Append(requests, [call |-> "QueryPackage", ok |-> TRUE])
                          /\ mod' = m
                          /\ modprefix' = ModPrefix(m.Path)
                          /\ pkgdir' = SplitPath(ModPrefix(m.Path), spec.path).pkgdir
                          /\ gpc' = "resolve"
                          /\ UNCHANGED gerr
    /\ UNCHANGED <<gin, latest, version, fetched, rewrites>>
    /\ UNCHANGED <<avars, lvars>>

\* modproxy.Latest fails, or answers with a module
ResolveLatest(pin) ==
    \/ /\ requests' = Append(requests, [call |-> "Latest", ok |-> FALSE])
       /\ GetReturn("Latest")
       /\ UNCHANGED <<latest, version, query>>
    \/ \E m \in LatestOf(mod.Path) :
           /\ requests' = Append(requests, [call |-> "Latest", ok |-> TRUE])
           /\ latest' = m
           /\ version' = MaxVersion(m, <<>>, gin.pre)
           /\ query' = IF pin THEN version' ELSE query
           /\ gpc' = "goget"
           /\ UNCHANGED gerr

\* the literal query w, whatever the proxy lists
OrElseLiteral(v, w) ==
    w

\* v, or w when v is empty
OrElse(v, w) ==
    IF v # <<>> THEN v ELSE w

\* the default case without its test of the query
ResolveExplicitUnchecked ==
    /\ version' = OrElse(MaxVersion(mod, query, gin.pre), query)
    /\ gpc' = "goget"
    /\ UNCHANGED <<latest, query, requests, gerr>>

\* the default case of the switch
ResolveExplicit ==
    IF ~IsValid(query)
    THEN /\ GetReturn("invalid version")
         /\ UNCHANGED <<latest, version, query, requests>>
    ELSE /\ version' = OrElse(MaxVersion(mod, query, gin.pre), query)
         /\ gpc' = "goget"
         /\ UNCHANGED <<latest, query, requests, gerr>>

ResolveEmpty ==
    /\ version' = MaxVersion(mod, <<>>, gin.pre)
    /\ gpc' = "goget"
    /\ UNCHANGED <<latest, query, requests, gerr>>

\* the switch on the query of getcmd
GetResolveGetcmd ==
    /\ gpc = "resolve"
    /\ gin.impl = "getcmd"
    /\ IF query = <<>> THEN ResolveEmpty
       ELSE IF query = <<"l","a","t","e","s","t">> THEN ResolveLatest(TRUE)
       ELSE ResolveExplicit
    /\ UNCHANGED <<gin, mod, modprefix, pkgdir, fetched, rewrites>>
    /\ UNCHANGED <<avars, lvars>>

\* the switch on the query of get
GetResolveGet ==
    /\ gpc = "resolve"
    /\ gin.impl = "get"
    /\ IF query = <<>> THEN ResolveEmpty
       ELSE IF query = <<"l","a","t","e","s","t">> THEN ResolveLatest(TRUE)
       ELSE IF query \in {<<"m","a","s","t","e","r">>, <<"d","e","f","a","u","l","t">>} THEN ResolveLatest(FALSE)
       ELSE ResolveExplicit
    /\ UNCHANGED <<gin, mod, modprefix, pkgdir, fetched, rewrites>>
    /\ UNCHANGED <<avars, lvars>>

\* the argument of go get
GoGetSpec ==
    JoinPath(modprefix, version, pkgdir) \o (IF query # <<>> THEN <<"@">> \o query ELSE <<>>)

\* go get is run unless -get=false; it may fail
GetGoGet ==
    /\ gpc = "goget"
    /\ IF gin.goget
       THEN /\ fetched' = Append(fetched, GoGetSpec)
            /\ \/ GetReturn("go get")
               \/ gpc' = "rewrite" /\ UNCHANGED gerr
       ELSE /\ gpc' = "rewrite"
            /\ UNCHANGED <<fetched, gerr>>
    /\ UNCHANGED <<gin, mod, latest, query, version, modprefix, pkgdir, requests, rewrites>>
    /\ UNCHANGED <<avars, lvars>>

\* the imports are rewritten unless -rewrite=false; the rewrite may fail
GetRewrite ==
    /\ gpc = "rewrite"
    /\ IF gin.rewrite
       THEN /\ rewrites' = Append(rewrites, [PkgDir |-> pkgdir, Prefix |-> modprefix,
                                             NewVersion |-> version])
            /\ \E err \in {"", "rewrite"} : GetReturn(err)
       ELSE /\ GetReturn("")
            /\ UNCHANGED rewrites
    /\ UNCHANGED <<gin, mod, latest, query, version, modprefix, pkgdir, requests, fetched>>
    /\ UNCHANGED <<avars, lvars>>

NextGet ==
    \/ GetQueryPackage
    \/ GetResolveGetcmd
    \/ GetResolveGet
    \/ GetGoGet
    \/ GetRewrite

SpecGet ==
    InitGet /\ [][NextGet]_vars

\* ------------------------------------------------------------------------
\* The list command (listcmd of main.go, and list, its earlier form)

\* the project has at most NumDeps direct dependencies
NumDeps == 4

CachedLimit == 3

UncachedLimit == 1

\* s split at every sep

\* whether glob, free of pattern characters, is the leading path elements of target
GlobMatches(ge, te) ==
    Len(ge) <= Len(te) /\ \A i \in 1..Len(ge) : te[i] = ge[i]

\* module.MatchPrefixPatterns for globs free of pattern characters
MatchPrefixPatterns(globs, target) ==
    \E i \in 1..(Cardinality(SepAt(globs, ",")) + 1) :
        \E g \in {Split(globs, ",")[i]} :
            g # <<>> /\ Call2(GlobMatches, Split(g, "/"), Split(target, "/"))

\* the values of GOPRIVATE
PrivateGlobs ==
    { <<>>, <<"g","o","p","k","g",".","i","n",",","e","x","a","m","p","l","e",".","o","r","g">> }

\* the k-th module the project requires directly
ProjectModule(k) ==
    IF k % 2 = 1
    THEN [Path |-> <<"g","i","t","h","u","b",".","c","o","m","/","p","k","g","/","m">> \o Decimal(k), Version |-> <<"v","1",".","2",".","0">>]
    ELSE [Path |-> <<"g","o","p","k","g",".","i","n","/","m">> \o Decimal(k) \o <<".","v","2">>, Version |-> <<"v","2",".","0",".","0">>]

\* Direct: the package recorded for a module of the project
DirectPackage(m) ==
    [Version |-> m.Version, PkgDir |-> <<>>, ModPrefix |-> DirectModPrefix(m.Path)]

\* what the proxy may list for a dependency
ListAnswers ==
    { {<<"v","1",".","2",".","0">>}, {<<"v","3",".","0",".","0">>, <<"v","3",".","1",".","0","-","r","c",".","1">>} }

\* group.SetLimit
SetLimitAny(cached) ==
    CachedLimit

SetLimit(cached) ==
    IF cached THEN CachedLimit ELSE UncachedLimit

\* what the function handed to group.Go returns for a failed lookup
FailedLookupReturnsErr ==
    "Latest"

FailedLookupReturn ==
    ""

Active ==
    {k \in 1..Len(status) : status[k] \in {"spawned", "lookup"}}

InFlight ==
    {k \in 1..Len(status) : status[k] = "lookup"}

InitList ==
    /\ IdleAlgebra
    /\ IdleGet
    /\ lpc = "start"
    /\ lin \in [impl : {"listcmd", "list"}, cached : BOOLEAN, pre : BOOLEAN,
                major : BOOLEAN, private : PrivateGlobs, ndeps : 0..NumDeps]
    /\ deps = <<>>
    /\ idx = 0
    /\ status = <<>>
    /\ lookups = <<>>
    /\ stderr = {}
    /\ stdout = {}
    /\ groupErr = ""
    /\ lerr = ""

\* packages.Direct fails, or lists the direct dependencies
ListDirect ==
    /\ lpc = "start"
    /\ \/ /\ lerr' = "Direct"
          /\ lpc' = "done"
          /\ UNCHANGED <<deps, idx, status, lookups>>
       \/ /\ deps' = [k \in 1..lin.ndeps |-> DirectPackage(ProjectModule(k))]
          /\ status' = [k \in 1..lin.ndeps |-> "none"]
          /\ lookups' = [k \in 1..lin.ndeps |-> 0]
          /\ idx' = 1
          /\ lpc' = "loop"
          /\ UNCHANGED lerr
    /\ UNCHANGED <<lin, stderr, stdout, groupErr>>
    /\ UNCHANGED <<avars, gvars>>

\* the lines of a lookup that answered with the versions vs
Report(dep, v) ==
    IF lin.major /\ Compare(Major(v), Major(dep.Version)) <= 0 THEN {}
    ELSE IF Compare(v, dep.Version) <= 0 THEN {}
    ELSE {[path |-> Path(dep), failed |-> FALSE, version |-> dep.Version, latest |-> v]}

\* the line that reports a failed lookup
FailedLine(dep) ==
    [path |-> Path(dep), failed |-> TRUE, version |-> <<>>, latest |-> <<>>]

\* one turn of the loop of listcmd: a private dependency is passed over; for
\* any other, group.Go waits for a free slot and starts the lookup
ListGo ==
    /\ lpc = "loop"
    /\ lin.impl = "listcmd"
    /\ idx <= Len(deps)
    /\ IF Call2(MatchPrefixPatterns, lin.private, Path(deps[idx]))
       THEN UNCHANGED status
       ELSE /\ Cardinality(Active) < SetLimit(lin.cached)
            /\ status' = [status EXCEPT ![idx] = "spawned"]
    /\ idx' = idx + 1
    /\ UNCHANGED <<lpc, lin, deps, lookups, stderr, stdout, groupErr, lerr>>
    /\ UNCHANGED <<avars, gvars>>

\* a started function calls modproxy.Latest
GoLatest(k) ==
    /\ status[k] = "spawned"
    /\ status' = [status EXCEPT ![k] = "lookup"]
    /\ lookups' = [lookups EXCEPT ![k] = @ + 1]
    /\ UNCHANGED <<lpc, lin, deps, idx, stderr, stdout, groupErr, lerr>>
    /\ UNCHANGED <<avars, gvars>>

\* the first error returned to the group is the one Wait returns
GroupDone(err) ==
    groupErr' = IF groupErr = "" THEN err ELSE groupErr

\* modproxy.Latest returns: the function reports and ends, freeing its slot
GoReturn(k) ==
    /\ status[k] = "lookup"
    /\ \/ /\ status' = [status EXCEPT ![k] = "failed"]
          /\ stderr' = stderr \cup {FailedLine(deps[k])}
          /\ GroupDone(FailedLookupReturn)
          /\ UNCHANGED stdout
       \/ \E vs \in ListAnswers :
              /\ status' = [status EXCEPT ![k] = "ok"]
              /\ stdout' = stdout \cup Call2(Report, deps[k], MaxVersion([Versions |-> vs], <<>>, lin.pre))
              /\ GroupDone("")
              /\ UNCHANGED stderr
    /\ UNCHANGED <<lpc, lin, deps, idx, lookups, lerr>>
    /\ UNCHANGED <<avars, gvars>>

\* group.Wait returns once every started function has ended
ListWait ==
    /\ lpc = "loop"
    /\ lin.impl = "listcmd"
    /\ idx > Len(deps)
    /\ Active = {}
    /\ lerr' = groupErr
    /\ lpc' = "done"
    /\ UNCHANGED <<lin, deps, idx, status, lookups, stderr, stdout, groupErr>>
    /\ UNCHANGED <<avars, gvars>>

\* one turn of the loop of list: the lookup is made in the loop itself
ListLoop ==
    /\ lpc = "loop"
    /\ lin.impl = "list"
    /\ idx <= Len(deps)
    /\ IF Call2(MatchPrefixPatterns, lin.private, Path(deps[idx]))
       THEN UNCHANGED <<status, lookups, stderr, stdout>>
       ELSE /\ lookups' = [lookups EXCEPT ![idx] = @ + 1]
            /\ \/ /\ status' = [status EXCEPT ![idx] = "failed"]
                  /\ stdout' = stdout \cup {FailedLine(deps[idx])}
                  /\ UNCHANGED stderr
               \/ \E vs \in ListAnswers :
                      /\ status' = [status EXCEPT ![idx] = "ok"]
                      /\ stdout' = stdout \cup
                             Call2(Report, deps[idx], MaxVersion([Versions |-> vs], <<>>, lin.pre))
                      /\ UNCHANGED stderr
    /\ idx' = idx + 1
    /\ UNCHANGED <<lpc, lin, deps, groupErr, lerr>>
    /\ UNCHANGED <<avars, gvars>>

\* list returns nil after its loop
ListReturn ==
    /\ lpc = "loop"
    /\ lin.impl = "list"
    /\ idx > Len(deps)
    /\ lerr' = ""
    /\ lpc' = "done"
    /\ UNCHANGED <<lin, deps, idx, status, lookups, stderr, stdout, groupErr>>
    /\ UNCHANGED <<avars, gvars>>

NextList ==
    \/ ListDirect
    \/ ListGo
    \/ \E k \in 1..Len(status) : GoLatest(k)
    \/ \E k \in 1..Len(status) : GoReturn(k)
    \/ ListWait
    \/ ListLoop
    \/ ListReturn

SpecList ==
    InitList /\ [][NextList]_vars

\* every runnable goroutine is scheduled and every lookup returns
SpecListFair ==
    SpecList /\ WF_vars(NextList)

\* ------------------------------------------------------------------------
\* Properties of the coordinate algebra

\* the prefix carries the marker JoinPathMajor and ModPath test for gopkg.in
LegacyHost(prefix) ==
    HasPrefix(prefix, <<"g","o","p","k","g",".","i","n">>)

UnsuffixedTokens ==
    {<<>>, <<"v","0">>, <<"v","1">>}

\* the bare tokens of the majors >= 2
SuffixedTokens ==
    {Token(n) : n \in {k \in MajorNumbers : k >= 2}}

\* arg.major is a major >= 2, bare or with the separator of arg.prefix's convention
SuffixedMajor ==
    \E t \in SuffixedTokens :
        arg.major \in {t, (IF LegacyHost(arg.prefix) THEN <<".">> ELSE <<"/">>) \o t}

BareMajor ==
    IF LegacyHost(arg.prefix) THEN TrimPrefix(arg.major, <<".">>) ELSE TrimPrefix(arg.major, <<"/">>)

C3_RoundTrip ==
    ( /\ apc = "stripped"
      /\ SuffixedMajor
      /\ LegacyHost(arg.prefix) => HasPrefix(arg.prefix, <<"g","o","p","k","g",".","i","n","/">>) ) =>
        strip = [prefix    |-> arg.prefix,
                 pathMajor |-> (IF LegacyHost(arg.prefix) THEN <<".">> ELSE <<"/">>) \o BareMajor,
                 ok        |-> TRUE]

\* C3 amended: for every major >= 2, given bare or with the separator of the
\* prefix's convention, stripping the encoded path returns ok and
\*   - under host "gopkg.in/": the prefix and "." with the token;
\*   - for a prefix that does not start with "gopkg.in": the prefix without
\*     its trailing "/", and "/" with the token;
\*   - for a prefix that starts with "gopkg.in" outside that host: the whole
\*     encoded path and no major, since ".vN" was appended to a path that
\*     SplitPathVersion reads under the standard convention;
\* and the encoded paths of github.com/pkg/errors at v3 and gopkg.in/yaml at
\* v2 are github.com/pkg/errors/v3 and gopkg.in/yaml.v2.
C3_RoundTripAmended ==
    (apc = "stripped" /\ SuffixedMajor) =>
        /\ strip.ok
        /\ IF HasPrefix(arg.prefix, <<"g","o","p","k","g",".","i","n","/">>)
           THEN strip.prefix = arg.prefix /\ strip.pathMajor = <<".">> \o BareMajor
           ELSE IF ~LegacyHost(arg.prefix)
           THEN /\ strip.prefix = (IF HasSuffix(arg.prefix, <<"/">>)
                                   THEN Take(arg.prefix, Len(arg.prefix) - 1)
                                   ELSE arg.prefix)
                /\ strip.pathMajor = <<"/">> \o BareMajor
           ELSE /\ strip.prefix = arg.prefix \o <<".">> \o BareMajor
                /\ strip.pathMajor = <<>>
        /\ (arg.prefix = <<"g","i","t","h","u","b",".","c","o","m","/","p","k","g","/","e","r","r","o","r","s">> /\ BareMajor = <<"v","3">>)
               => joined = <<"g","i","t","h","u","b",".","c","o","m","/","p","k","g","/","e","r","r","o","r","s","/","v","3">>
        /\ (arg.prefix = <<"g","o","p","k","g",".","i","n","/","y","a","m","l">> /\ BareMajor = <<"v","2">>)
               => joined = <<"g","o","p","k","g",".","i","n","/","y","a","m","l",".","v","2">>

C3_Witness ==
    /\ apc = "stripped"
    /\ arg.prefix = <<"g","o","p","k","g",".","i","n","/","y","a","m","l">>
    /\ arg.major = <<".","v","2">>
    /\ joined = <<"g","o","p","k","g",".","i","n","/","y","a","m","l",".","v","2">>
    /\ strip = [prefix |-> <<"g","o","p","k","g",".","i","n","/","y","a","m","l">>, pathMajor |-> <<".","v","2">>, ok |-> TRUE]

\* C4: FindModPath reports ok = FALSE whenever the prefix is a raw string
\* prefix of the path but the path does not continue it at its end, at a "/"
\* or at a ".vN" suffix.
C4_SegmentBoundary ==
    LET rest == Drop(arg.path, Len(arg.prefix))
    IN  ( /\ apc = "found"
          /\ HasPrefix(arg.path, arg.prefix)
          /\ ~HasSuffix(arg.prefix, <<"/">>)
          /\ rest # <<>>
          /\ rest[1] # "/"
          /\ ~HasPrefix(rest, <<".","v">>) ) => ~found.ok

\* C7: the function get hands to the rewrite skips, and prints nothing, for a
\* path that does not decompose against the prefix, for a path whose sub-path
\* differs from a non-empty requested one, and for a path that its own
\* re-encoding (prefix, target major, sub-path) leaves as it is.
C7_MappingSkips ==
    LET sp == SplitPath(arg.prefix, arg.path)
    IN  apc = "mapped" =>
            /\ ~sp.ok => mapped.skip
            /\ (sp.ok /\ arg.pkgdir # <<>> /\ arg.pkgdir # sp.pkgdir) => mapped.skip
            /\ (sp.ok /\ JoinPath(arg.prefix, arg.version, sp.pkgdir) = arg.path)
                   => mapped.skip
            /\ mapped.skip => (mapped.newpath = <<>> /\ rewriteLog = <<>>)
            /\ ~mapped.skip => mapped.newpath # arg.path

C7_Witness ==
    /\ apc = "mapped"
    /\ arg.prefix = <<"g","i","t","h","u","b",".","c","o","m","/","p","k","g","/","e","r","r","o","r","s">>
    /\ arg.version = <<"v","3",".","0",".","0">>
    /\ arg.pkgdir = <<"s","u","b">>
    /\ arg.path = <<"g","i","t","h","u","b",".","c","o","m","/","p","k","g","/","e","r","r","o","r","s","/","v","3","/","s","u","b">>
    /\ SplitPath(arg.prefix, arg.path).ok
    /\ JoinPath(arg.prefix, arg.version, <<"s","u","b">>) = arg.path
    /\ mapped.skip
    /\ rewriteLog = <<>>

\* C8: ModPath is the prefix alone for a version with the "+incompatible"
\* marker under a prefix without the gopkg.in marker, whatever the major of
\* the version; for every other package it is JoinPathMajor of the prefix
\* and the major of the version.
C8_ModPath ==
    apc = "modpath" =>
        IF Contains(arg.version, <<"+","i","n","c","o","m","p","a","t","i","b","l","e">>) /\ ~LegacyHost(arg.prefix)
        THEN modpath = arg.prefix
        ELSE modpath = JoinPathMajor(arg.prefix, Major(arg.version))

C8_Witness ==
    /\ apc = "modpath"
    /\ arg.version = <<"v","2",".","0",".","0","+","i","n","c","o","m","p","a","t","i","b","l","e">>
    /\ arg.prefix = <<"g","i","t","h","u","b",".","c","o","m","/","p","k","g","/","e","r","r","o","r","s">>
    /\ modpath = <<"g","i","t","h","u","b",".","c","o","m","/","p","k","g","/","e","r","r","o","r","s">>

\* ------------------------------------------------------------------------
\* Properties of the get command

\* the query of the command line, before the command replaces it
Query0 ==
    IF Len(gin.args) = 1 THEN SplitSpec(gin.args[1]).version ELSE <<>>

AllRequestsOk ==
    \A i \in 1..Len(requests) : requests[i].ok

QueryPackageOk ==
    Len(requests) >= 1 /\ requests[1].ok

\* the command is past its resolution of the version
PastResolve ==
    gpc \in {"goget", "rewrite", "done"} /\ QueryPackageOk

\* the queries that the running form of the command resolves by Latest
LiveQueries ==
    IF gin.impl = "get" THEN {<<"l","a","t","e","s","t">>, <<"m","a","s","t","e","r">>, <<"d","e","f","a","u","l","t">>} ELSE {<<"l","a","t","e","s","t">>}

ResolutionErrors ==
    {"missing package spec", "QueryPackage", "Latest", "invalid version"}

ResolutionFailed ==
    /\ gpc # "start"
    /\ \/ Len(gin.args) # 1
       \/ ~AllRequestsOk
       \/ /\ PastResolve
          /\ Query0 \notin (LiveQueries \cup {<<>>})
          /\ ~IsValid(Query0)

\* C1: a failed resolution (an argument count other than one, a failed
\* QueryPackage or Latest, an explicit query that is no semantic version)
\* ends the command with an error and neither go get nor the rewrite has
\* run; go get and the rewrite run only for one argument, proxy requests that
\* all succeeded and a query that resolved, and the rewrite is handed the
\* resolved version.
C1_NoFetchWithoutTarget ==
    /\ ResolutionFailed =>
           /\ gpc = "done"
           /\ gerr \in ResolutionErrors
           /\ fetched = <<>>
           /\ rewrites = <<>>
    /\ (fetched # <<>> \/ rewrites # <<>>) =>
           /\ Len(gin.args) = 1
           /\ PastResolve
           /\ AllRequestsOk
           /\ Query0 \in (LiveQueries \cup {<<>>}) \/ IsValid(Query0)
           /\ \A i \in 1..Len(rewrites) : rewrites[i].NewVersion = version

C1_Witness ==
    /\ gin.goget
    /\ gin.rewrite
    /\ gin.impl = "getcmd"
    /\ Query0 = <<"l","a","t","e","s","t">>
    /\ Len(requests) = 2
    /\ ~requests[2].ok
    /\ gpc = "done"
    /\ gerr = "Latest"
    /\ fetched = <<>>
    /\ rewrites = <<>>

\* C5: the queries latest, master and default are all resolved by a request
\* for the latest module, to its greatest version under the pre flag; none
\* is refused as an invalid version, and only latest is replaced by the
\* resolved version.
C5_LiveLatestQueries ==
    (PastResolve /\ Query0 \in {<<"l","a","t","e","s","t">>, <<"m","a","s","t","e","r">>, <<"d","e","f","a","u","l","t">>}) =>
        /\ gerr # "invalid version"
        /\ \E i \in 1..Len(requests) : requests[i].call = "Latest"
        /\ AllRequestsOk =>
               /\ version = MaxVersion(latest, <<>>, gin.pre)
               /\ query = (IF Query0 = <<"l","a","t","e","s","t">> THEN version ELSE Query0)

\* C9: for an explicit query that is a valid semantic version the target is
\* the greatest listed version that starts with the query, under the pre
\* flag, and the literal query when there is none; that resolution is no
\* error, asks the proxy nothing more, and go get is run with the target and
\* the literal query.
C9_ExplicitVersion ==
    (PastResolve /\ IsValid(Query0)) =>
        /\ version = (IF MaxVersion(mod, Query0, gin.pre) # <<>>
                      THEN MaxVersion(mod, Query0, gin.pre)
                      ELSE Query0)
        /\ query = Query0
        /\ gerr \notin ResolutionErrors
        /\ Len(requests) = 1
        /\ (gin.goget /\ gpc # "goget") =>
               fetched = <<JoinPath(modprefix, version, pkgdir) \o <<"@">> \o Query0>>

C9_Witness ==
    /\ Query0 = <<"v","4",".","0",".","0">>
    /\ mod.Versions # {}
    /\ MaxVersion(mod, Query0, gin.pre) = <<>>
    /\ gpc = "rewrite"
    /\ gerr = ""
    /\ version = <<"v","4",".","0",".","0">>
    /\ fetched = <<<<"g","i","t","h","u","b",".","c","o","m","/","p","k","g","/","e","r","r","o","r","s","/","v","4","/","s","u","b","@","v","4",".","0",".","0">>>>

\* ------------------------------------------------------------------------
\* Properties of the list command

Private(k) ==
    Call2(MatchPrefixPatterns, lin.private, Path(deps[k]))

\* C6: whichever lookups fail and however the lookups interleave, the
\* command ends; no dependency is looked up twice; the failure lines name the
\* dependencies whose lookup failed and no other; and once the dependencies
\* were listed the command ends without an error, having looked up every
\* dependency that GOPRIVATE does not match exactly once and the others never.
C6_FailuresIsolated ==
    /\ <>(lpc = "done")
    /\ [](\A k \in 1..Len(lookups) : lookups[k] <= 1)
    /\ []({l \in stderr \cup stdout : l.failed} =
              {FailedLine(deps[k]) : k \in {j \in 1..Len(status) : status[j] = "failed"}})
    /\ []((lpc = "done" /\ lerr # "Direct") =>
              /\ lerr = ""
              /\ Len(deps) = lin.ndeps
              /\ \A k \in 1..Len(deps) :
                     IF Private(k)
                     THEN lookups[k] = 0 /\ status[k] = "none"
                     ELSE lookups[k] = 1 /\ status[k] \in {"ok", "failed"})

C6_Witness ==
    /\ lpc = "done"
    /\ lin.impl = "listcmd"
    /\ lin.cached
    /\ Len(deps) >= 3
    /\ status[1] = "failed"
    /\ status[2] = "ok"
    /\ status[3] = "failed"
    /\ lookups[2] = 1
    /\ stderr = {FailedLine(deps[1]), FailedLine(deps[3])}
    /\ lerr = ""

\* C10: the lookups in flight, and the functions started and not ended,
\* never number more than 3 with cached responses and 1 without.
C10_BoundedFanOut ==
    /\ Cardinality(InFlight) <= (IF lin.cached THEN CachedLimit ELSE UncachedLimit)
    /\ Cardinality(Active) <= (IF lin.cached THEN CachedLimit ELSE UncachedLimit)

\* the limit is reached and the loop waits with a further dependency
C10_Witness ==
    /\ lpc = "loop"
    /\ lin.impl = "listcmd"
    /\ lin.cached
    /\ Cardinality(InFlight) = CachedLimit
    /\ idx <= Len(deps)
    /\ ~Private(idx)
    /\ ~ENABLED ListGo

====
